---- MODULE Spec2Model ----
(***************************************************************************)
(* Model of adaptor/recurjac_adaptor.py: the conversion of a torch         *)
(* sequential model into a keras layer list (torch2keras), the extraction  *)
(* of its Dense layers (RecurBaseModel), and the verify / calc_radius      *)
(* entry points of the four adaptors built on RecurJacBase.                *)
(*                                                                         *)
(* The routines of the wrapped library (predict, compute_bounds_integral,  *)
(* compute_bounds, spectral_bound, binary_search) are the environment:     *)
(* their numerical results are drawn from small sets.  Radii are integers  *)
(* (a radius in units of some fixed step); 0 stands for 0.0.               *)
(***************************************************************************)
EXTENDS Integers, Sequences, FiniteSets

\* ------------------------------------------------------------- bounds
MaxLayers == 4
MaxDepth == 2
MaxProbes == 2
MaxRadius == 1
MaxLabel == 1

Radii == 0..MaxRadius
Labels == 0..MaxLabel
Gaps == {-1, 0, 1}

\* ------------------------------------------------------------- inputs
LayerKinds == {"Flatten", "Linear", "ReLU", "Tanh", "LeakyReLU", "Dropout", "Conv2d"}
SupportedKinds == {"Flatten", "Linear", "ReLU", "Tanh", "LeakyReLU", "Dropout"}
AdaptorKinds == {"FastLipAdaptor", "RecurJacAdaptor", "SpectralAdaptor", "FastLinAdaptor"}
NormTypes == {"1", "2", "inf", "3"}

\* every layer list of at most MaxLayers layers
TorchModels == UNION {[1..k -> LayerKinds] : k \in 0..MaxLayers}

\* the multi-layer perceptron with `depth` Linear layers and activation `act`:
\* Flatten, Linear, act, Linear, ..., act, Linear
MLP(act, depth) ==
    [i \in 1..(2 * depth) |->
        IF i = 1 THEN "Flatten" ELSE IF i % 2 = 0 THEN "Linear" ELSE act]

Perceptrons == {MLP(act, depth) : act \in {"ReLU", "Tanh", "LeakyReLU"},
                                  depth \in 1..MaxDepth}

\* ------------------------------------------------------------- values
Float(x) == [t |-> "float", b |-> FALSE, v |-> x]
Bool(x) == [t |-> "bool", b |-> x, v |-> 0]
Raised(e) == [t |-> e, b |-> FALSE, v |-> 0]
NoValue == [t |-> "none", b |-> FALSE, v |-> 0]

\* Python truth value of a returned object
Truthy(r) == IF r.t = "bool" THEN r.b ELSE r.t = "float" /\ r.v # 0

Range(s) == {s[i] : i \in 1..Len(s)}

\* ------------------------------------------------------ torch2keras
KLayer(kind, fn, n) == [kind |-> kind, fn |-> fn, n |-> n]

\* faulty variant: a Dropout layer is carried over
ConvertLayer_keepDropout(layer, n) ==
    CASE layer = "Flatten" -> <<KLayer("Flatten", "none", 0)>>
      [] layer = "Linear" -> <<KLayer("Dense", "none", n)>>
      [] layer = "ReLU" -> <<KLayer("Activation", "relu", n)>>
      [] layer = "Tanh" -> <<KLayer("Activation", "tanh", n)>>
      [] layer = "LeakyReLU" -> <<KLayer("LeakyReLU", "leaky", n)>>
      [] OTHER -> <<KLayer("Dropout", "none", n)>>

\* the layer the loop body adds for the torch layer at position n
\* (<<>> when nothing is added)
ConvertLayer(layer, n) ==
    CASE layer = "Flatten" -> <<KLayer("Flatten", "none", 0)>>
      [] layer = "Linear" -> <<KLayer("Dense", "none", n)>>
      [] layer = "ReLU" -> <<KLayer("Activation", "relu", n)>>
      [] layer = "Tanh" -> <<KLayer("Activation", "tanh", n)>>
      [] layer = "LeakyReLU" -> <<KLayer("LeakyReLU", "leaky", n)>>
      [] OTHER -> <<>>

ActivationOf(layer) ==
    CASE layer = "ReLU" -> <<"relu">>
      [] layer = "Tanh" -> <<"tanh">>
      [] layer = "LeakyReLU" -> <<"leaky">>
      [] OTHER -> <<>>

\* negative_slope of the torch layer at position n, as a token
NegativeSlope(n) == <<n>>

\* faulty variant: several activation kinds pass
AssertOneActivation_atLeastOne(activation) == Cardinality(Range(activation)) >= 1

\* assert len(list(set(activation))) == 1
AssertOneActivation(activation) == Cardinality(Range(activation)) = 1

RECURSIVE ConvertLoop(_, _, _, _, _)
ConvertLoop(model, n, ans, activation, activation_param) ==
    IF n > Len(model)
    THEN [raised |-> "none", ans |-> ans, activation |-> activation,
          activation_param |-> activation_param]
    ELSE IF model[n] \notin SupportedKinds
    THEN [raised |-> "NotImplementedError", ans |-> ans, activation |-> activation,
          activation_param |-> activation_param]
    ELSE ConvertLoop(model, n + 1,
                     ans \o ConvertLayer(model[n], n),
                     activation \o ActivationOf(model[n]),
                     IF model[n] = "LeakyReLU" THEN NegativeSlope(n)
                     ELSE activation_param)

\* result: raised, the keras layers, the activation name, activation_param
torch2keras(model) ==
    LET loop == ConvertLoop(model, 1, <<>>, <<>>, <<>>)
    IN  IF loop.raised # "none"
        THEN [raised |-> loop.raised, ans |-> <<>>, activation |-> "none",
              activation_param |-> <<>>]
        ELSE IF ~AssertOneActivation(loop.activation)
        THEN [raised |-> "AssertionError", ans |-> <<>>, activation |-> "none",
              activation_param |-> <<>>]
        ELSE [raised |-> "none", ans |-> loop.ans,
              activation |-> loop.activation[1],
              activation_param |-> loop.activation_param]

\* --------------------------------------------------- RecurBaseModel
IsDense(l) == l.kind = "Dense"

DenseLayers(layers) == SelectSeq(layers, IsDense)

\* self.W = self.U[-1]; self.U = self.U[:-1]
SplitUW(dense) ==
    [U |-> SubSeq(dense, 1, Len(dense) - 1), W |-> <<dense[Len(dense)]>>]

RecurBaseModel(model) ==
    LET conv == torch2keras(model)
        dense == DenseLayers(conv.ans)
    IN  IF conv.raised # "none"
        THEN [raised |-> conv.raised, conv |-> conv, U |-> <<>>, W |-> <<>>]
        ELSE IF dense = <<>>
        THEN [raised |-> "IndexError", conv |-> conv, U |-> <<>>, W |-> <<>>]
        ELSE [raised |-> "none", conv |-> conv,
              U |-> SplitUW(dense).U, W |-> SplitUW(dense).W]

\* ------------------------------------------------------ RecurJacBase
\* get_weights_list: one weight and one bias per Dense layer, U then W
WeightsOf(built) == [i \in 1..(Len(built.U) + 1) |-> (built.U \o built.W)[i].n]

\* RecurJacBase.__init__ after the model is built
BaseInit(built) ==
    [weights |-> WeightsOf(built),
     biases |-> WeightsOf(built),
     lipsteps |-> 15,
     layerbndalg |-> IF built.conv.activation = "relu" THEN "crown-adaptive"
                     ELSE "crown-general",
     bounded_input |-> TRUE,
     jacbndalg |-> "None",
     lipsdir |-> -1,
     lipsshift |-> 1,
     steps |-> 15]

\* faulty variant: FastLipAdaptor leaves jacbndalg unset
SubclassInit_fastlipUnset(k, s) ==
    CASE k = "FastLipAdaptor" -> s
      [] k = "RecurJacAdaptor" -> [s EXCEPT !.jacbndalg = "recurjac"]
      [] k = "SpectralAdaptor" -> [s EXCEPT !.layerbndalg = "spectral"]
      [] k = "FastLinAdaptor" -> [s EXCEPT !.jacbndalg = "disable",
                                            !.layerbndalg = "fastlin"]

\* the assignments of the concrete adaptor's __init__ after super().__init__
SubclassInit(k, s) ==
    CASE k = "FastLipAdaptor" -> [s EXCEPT !.jacbndalg = "fastlip"]
      [] k = "RecurJacAdaptor" -> [s EXCEPT !.jacbndalg = "recurjac"]
      [] k = "SpectralAdaptor" -> [s EXCEPT !.layerbndalg = "spectral"]
      [] k = "FastLinAdaptor" -> [s EXCEPT !.jacbndalg = "disable",
                                            !.layerbndalg = "fastlin"]

\* norm = {'1': 1, '2': 2, 'inf': np.inf}[norm_type] raises KeyError otherwise
ValidNorm(norm_type) == norm_type \in {"1", "2", "inf"}

\* faulty variant: the prediction is not compared with the label
Mispredicted_never(pred_label, label) == FALSE

\* if pred_label != label
Mispredicted(pred_label, label) == pred_label # label

\* one entry of the call trace: a call into the wrapped library, or the
\* entry / return of calc_radius
Ev(fn, layerbndalg, jacbndalg) ==
    [fn |-> fn, layerbndalg |-> layerbndalg, jacbndalg |-> jacbndalg]

EvPredict == Ev("predict", "-", "-")
EvEnter == Ev("calc_radius", "-", "-")
EvReturn == Ev("return", "-", "-")
\* the layerbndalg and jacbndalg arguments of the call are recorded
EvIntegral(s) == Ev("compute_bounds_integral", s.layerbndalg, s.jacbndalg)
EvBounds(s) == Ev("compute_bounds", s.layerbndalg, "disable")
EvSpectral == Ev("spectral_bound", "-", "-")

BoundFns == {"compute_bounds_integral", "compute_bounds", "spectral_bound"}

\* faulty variant: the model is evaluated twice
Predict_twice == <<EvPredict, EvPredict>>

\* preds = self.model.model.predict(...)
Predict == <<EvPredict>>

\* faulty variant: a call overwrites a hyperparameter
SelfAfterCall_lipsteps(s) == [s EXCEPT !.lipsteps = 0]

\* verify and calc_radius assign no attribute of self
SelfAfterCall(s) == s

\* RecurJacBase.verify: return 0.0
MispredictedVerify == Float(0)

\* RecurJacBase.verify: the outcomes [ret, trace, pred_label] of one call
BaseVerifyOutcomes(s, label, norm_type, radius) ==
    IF ~ValidNorm(norm_type)
    THEN {[ret |-> Raised("KeyError"), trace |-> <<>>, predicted |-> FALSE,
           pred_label |-> 0]}
    ELSE UNION {
        IF Mispredicted(pred_label, label)
        THEN {[ret |-> MispredictedVerify, trace |-> Predict, predicted |-> TRUE,
               pred_label |-> pred_label]}
        ELSE IF s.jacbndalg # "disable"
        THEN {[ret |-> Bool(robustness_lb = radius),
               trace |-> Predict \o <<EvIntegral(s)>>,
               predicted |-> TRUE, pred_label |-> pred_label]
              : robustness_lb \in Radii}
        ELSE {[ret |-> Bool(gap_gx >= 0),
               trace |-> Predict \o <<EvBounds(s)>>,
               predicted |-> TRUE, pred_label |-> pred_label]
              : gap_gx \in Gaps}
        : pred_label \in Labels}

\* SpectralAdaptor.calc_radius: the outcomes of one call
SpectralCalcOutcomes(s, label, norm_type) ==
    IF ~ValidNorm(norm_type)
    THEN {[ret |-> Raised("KeyError"), trace |-> <<EvEnter>>, predicted |-> FALSE,
           pred_label |-> 0]}
    ELSE UNION {
        IF Mispredicted(pred_label, label)
        THEN {[ret |-> Float(0), trace |-> <<EvEnter>> \o Predict \o <<EvReturn>>,
               predicted |-> TRUE, pred_label |-> pred_label]}
        ELSE {[ret |-> Float(robustness_lb),
               trace |-> <<EvEnter>> \o Predict \o <<EvSpectral, EvReturn>>,
               predicted |-> TRUE, pred_label |-> pred_label]
              : robustness_lb \in Radii}
        : pred_label \in Labels}

\* SpectralAdaptor.verify: return radius <= self.calc_radius(input, label, norm_type)
SpectralVerifyOutcomes(s, label, norm_type, radius) ==
    {[ret |-> IF o.ret.t = "float" THEN Bool(radius <= o.ret.v) ELSE o.ret,
      trace |-> o.trace, predicted |-> o.predicted, pred_label |-> o.pred_label]
     : o \in SpectralCalcOutcomes(s, label, norm_type)}

\* verify as resolved on the adaptor's class
VerifyOutcomes(k, s, label, norm_type, radius) ==
    IF k = "SpectralAdaptor"
    THEN SpectralVerifyOutcomes(s, label, norm_type, radius)
    ELSE BaseVerifyOutcomes(s, label, norm_type, radius)

\* binary_search_cond of the jacbndalg != 'disable' branch
CondIntegral(robustness_lb, current_eps) ==
    [ok |-> robustness_lb = current_eps, val |-> robustness_lb]

\* binary_search_cond of the 'disable' branch
CondBounds(gap_gx) == [ok |-> gap_gx >= 0, val |-> gap_gx]

NoCond == [ok |-> FALSE, val |-> 0]

\* ------------------------------------------------------------- state
VARIABLES
    kind,        \* the adaptor class being used
    torchModel,  \* the torch model handed to the constructor
    pc,          \* "start", "failed", "ready", or "search" (inside binary_search)
    built,       \* the RecurBaseModel: conversion result, U and W
    self,        \* the adaptor's attributes
    self0,       \* the attributes as they were when the constructor returned
    call,        \* the current (pc = "search") or last entry-point call
    trace,       \* the calls made during that call, in order
    conversions, \* how many times torch2keras has run
    probes,      \* evaluations of binary_search_cond in the current search
    cond         \* what binary_search_cond returned last

vars == <<kind, torchModel, pc, built, self, self0, call, trace, conversions,
          probes, cond>>

NoSelf ==
    [weights |-> <<>>, biases |-> <<>>, lipsteps |-> 0, layerbndalg |-> "None",
     bounded_input |-> FALSE, jacbndalg |-> "None", lipsdir |-> 0,
     lipsshift |-> 0, steps |-> 0]

NoBuilt ==
    [raised |-> "none",
     conv |-> [raised |-> "none", ans |-> <<>>, activation |-> "none",
               activation_param |-> <<>>],
     U |-> <<>>, W |-> <<>>]

Call(op, label, norm_type, radius, predicted, pred_label, ret) ==
    [op |-> op, label |-> label, norm_type |-> norm_type, radius |-> radius,
     predicted |-> predicted, pred_label |-> pred_label, ret |-> ret]

NoCall == Call("none", 0, "1", 0, FALSE, 0, NoValue)

Start ==
    /\ kind \in AdaptorKinds
    /\ pc = "start"
    /\ built = NoBuilt
    /\ self = NoSelf
    /\ self0 = NoSelf
    /\ call = NoCall
    /\ trace = <<>>
    /\ conversions = 0
    /\ probes = 0
    /\ cond = NoCond

\* the adaptors are built on perceptrons
Init == torchModel \in Perceptrons /\ Start

\* the conversion is run on every layer list
InitConv == torchModel \in TorchModels /\ Start

\* <Adaptor>.__init__(dataset, model)
Construct ==
    /\ pc = "start"
    /\ LET m == RecurBaseModel(torchModel)
       IN  /\ built' = m
           /\ conversions' = conversions + 1
           /\ IF m.raised # "none"
              THEN /\ pc' = "failed"
                   /\ UNCHANGED <<self, self0>>
              ELSE /\ pc' = "ready"
                   /\ self' = SubclassInit(kind, BaseInit(m))
                   /\ self0' = self'
    /\ UNCHANGED <<kind, torchModel, call, trace, probes, cond>>

\* adaptor.verify(input, label, norm_type, radius)
Verify ==
    /\ pc = "ready"
    /\ \E label \in Labels, norm_type \in NormTypes, radius \in Radii :
         \E o \in VerifyOutcomes(kind, self, label, norm_type, radius) :
            /\ call' = Call("verify", label, norm_type, radius, o.predicted,
                            o.pred_label, o.ret)
            /\ trace' = o.trace
    /\ self' = SelfAfterCall(self)
    /\ probes' = 0
    /\ cond' = NoCond
    /\ UNCHANGED <<kind, torchModel, pc, built, self0, conversions>>

\* SpectralAdaptor.calc_radius(input, label, norm_type)
SpectralCalcRadius ==
    /\ pc = "ready"
    /\ kind = "SpectralAdaptor"
    /\ \E label \in Labels, norm_type \in NormTypes :
         \E o \in SpectralCalcOutcomes(self, label, norm_type) :
            /\ call' = Call("calc_radius", label, norm_type, 0, o.predicted,
                            o.pred_label, o.ret)
            /\ trace' = o.trace
    /\ self' = SelfAfterCall(self)
    /\ probes' = 0
    /\ cond' = NoCond
    /\ UNCHANGED <<kind, torchModel, pc, built, self0, conversions>>

\* RecurJacBase.calc_radius(input, label, norm_type) up to the call of
\* binary_search: the norm lookup, predict, and the misprediction return
CalcRadius ==
    /\ pc = "ready"
    /\ kind # "SpectralAdaptor"
    /\ probes' = 0
    /\ cond' = NoCond
    /\ \E label \in Labels, norm_type \in NormTypes :
         IF ~ValidNorm(norm_type)
         THEN /\ call' = Call("calc_radius", label, norm_type, 0, FALSE, 0,
                              Raised("KeyError"))
              /\ trace' = <<EvEnter>>
              /\ pc' = "ready"
         ELSE \E pred_label \in Labels :
                IF Mispredicted(pred_label, label)
                THEN /\ call' = Call("calc_radius", label, norm_type, 0, TRUE,
                                     pred_label, Float(0))
                     /\ trace' = <<EvEnter>> \o Predict \o <<EvReturn>>
                     /\ pc' = "ready"
                ELSE /\ call' = Call("calc_radius", label, norm_type, 0, TRUE,
                                     pred_label, NoValue)
                     /\ trace' = <<EvEnter>> \o Predict
                     /\ pc' = "search"
    /\ self' = SelfAfterCall(self)
    /\ UNCHANGED <<kind, torchModel, built, self0, conversions>>

\* binary_search evaluates binary_search_cond(current_eps)
SearchProbe ==
    /\ pc = "search"
    /\ probes < MaxProbes
    /\ probes' = probes + 1
    /\ \E current_eps \in Radii :
         IF self.jacbndalg # "disable"
         THEN \E robustness_lb \in Radii :
                /\ cond' = CondIntegral(robustness_lb, current_eps)
                /\ trace' = Append(trace, EvIntegral(self))
         ELSE \E gap_gx \in Gaps :
                /\ cond' = CondBounds(gap_gx)
                /\ trace' = Append(trace, EvBounds(self))
    /\ self' = SelfAfterCall(self)
    /\ UNCHANGED <<kind, torchModel, pc, built, self0, call, conversions>>

\* binary_search returns and calc_radius returns its value
SearchReturn ==
    /\ pc = "search"
    /\ \E robustness_lb \in Radii :
         call' = [call EXCEPT !.ret = Float(robustness_lb)]
    /\ trace' = Append(trace, EvReturn)
    /\ pc' = "ready"
    /\ self' = SelfAfterCall(self)
    /\ UNCHANGED <<kind, torchModel, built, self0, conversions, probes, cond>>

Next ==
    \/ Construct
    \/ Verify
    \/ SpectralCalcRadius
    \/ CalcRadius
    \/ SearchProbe
    \/ SearchReturn

Spec == Init /\ [][Next]_vars

SpecConv == InitConv /\ [][Construct]_vars

\* ------------------------------------------------------------ claims
Positions(fn) == {i \in 1..Len(trace) : trace[i].fn = fn}
BoundPositions == {i \in 1..Len(trace) : trace[i].fn \in BoundFns}
MispredictedCall == call.predicted /\ call.pred_label # call.label

\* C1 as stated: torch2keras has run exactly once, at construction, before
\* any predict; in every calc_radius call, predict is invoked exactly once,
\* before every call of a bound function, and every bound call lies between
\* that predict and the return of calc_radius.
C1_Original ==
    /\ (pc = "start") = (conversions = 0)
    /\ pc # "start" => conversions = 1
    /\ Positions("predict") # {} => conversions = 1
    /\ \A e \in Positions("calc_radius") :
         /\ Cardinality({p \in Positions("predict") : p > e}) = 1
         /\ \A j \in BoundPositions :
              /\ \E p \in Positions("predict") : e < p /\ p < j
              /\ \A r \in Positions("return") : j < r

\* C1: torch2keras has run exactly once, at construction, before any predict;
\* in every calc_radius call whose norm_type is '1', '2' or 'inf', predict is
\* invoked exactly once, before every call of a bound function, and every
\* bound call lies between that predict and the return of calc_radius; a
\* calc_radius call with any other norm_type raises KeyError without
\* invoking predict or a bound function.
C1_CallSequence ==
    /\ (pc = "start") = (conversions = 0)
    /\ pc # "start" => conversions = 1
    /\ Positions("predict") # {} => conversions = 1
    /\ \A e \in Positions("calc_radius") :
         IF ValidNorm(call.norm_type)
         THEN /\ Cardinality({p \in Positions("predict") : p > e}) = 1
              /\ \A j \in BoundPositions :
                   /\ \E p \in Positions("predict") : e < p /\ p < j
                   /\ \A r \in Positions("return") : j < r
         ELSE /\ call.ret = Raised("KeyError")
              /\ Positions("predict") = {}
              /\ BoundPositions = {}
              /\ pc = "ready"

C1_Witness ==
    /\ pc = "ready"
    /\ call.op = "calc_radius"
    /\ Cardinality(Positions("compute_bounds_integral")) = MaxProbes
    /\ Positions("return") # {}

\* C3: verify returns a boolean on every path, for every valid norm_type.
C3_VerifyReturnsBool ==
    (call.op = "verify" /\ ValidNorm(call.norm_type)) => call.ret.t = "bool"

\* C4: every bound call an adaptor makes is the routine of its algorithm:
\* FastLip and RecurJac call compute_bounds_integral with jacbndalg 'fastlip'
\* and 'recurjac', FastLin calls compute_bounds with layerbndalg 'fastlin' and
\* Jacobian bounding 'disable', Spectral calls spectral_bound; and
\* compute_bounds_integral is never called with jacbndalg None or 'disable'.
C4_MatchingRoutine ==
    \A i \in BoundPositions :
        /\ kind = "FastLipAdaptor" =>
              trace[i].fn = "compute_bounds_integral" /\ trace[i].jacbndalg = "fastlip"
        /\ kind = "RecurJacAdaptor" =>
              trace[i].fn = "compute_bounds_integral" /\ trace[i].jacbndalg = "recurjac"
        /\ kind = "FastLinAdaptor" =>
              /\ trace[i].fn = "compute_bounds"
              /\ trace[i].layerbndalg = "fastlin"
              /\ trace[i].jacbndalg = "disable"
        /\ kind = "SpectralAdaptor" => trace[i].fn = "spectral_bound"
        /\ trace[i].fn = "compute_bounds_integral" =>
              trace[i].jacbndalg \notin {"None", "disable"}

C4_Witness ==
    /\ kind = "FastLipAdaptor"
    /\ call.op = "verify"
    /\ Positions("compute_bounds_integral") # {}

\* C5: a calc_radius call on a mispredicted input returns 0.0 without calling
\* any bound function and without entering the binary search.
C5_MispredictedRadiusZero ==
    (Positions("calc_radius") # {} /\ MispredictedCall) =>
        /\ pc = "ready"
        /\ probes = 0
        /\ BoundPositions = {}
        /\ call.op = "calc_radius" => call.ret = Float(0)

C5_Witness ==
    /\ call.op = "calc_radius"
    /\ MispredictedCall
    /\ kind = "RecurJacAdaptor"
    /\ Positions("return") # {}

\* C6: verify on a mispredicted input returns a false result, whatever the
\* adaptor and the radius.
C6_NoCertifiedMisprediction ==
    (call.op = "verify" /\ MispredictedCall) => ~Truthy(call.ret)

\* C9: verify and calc_radius leave the adaptor's weights, biases and
\* hyperparameters as the constructor set them.
C9_ReadOnly ==
    pc \in {"ready", "search"} => self = self0

C9_Witness ==
    /\ pc = "ready"
    /\ call.op = "verify"
    /\ MispredictedCall
    /\ self.steps = 15

\* ----------------------------------------------- claims on conversion
HasUnsupported ==
    \E i \in 1..Len(torchModel) :
        torchModel[i] \notin {"Flatten", "Linear", "ReLU", "Tanh", "LeakyReLU", "Dropout"}

ActivationKinds == Range(torchModel) \cap {"ReLU", "Tanh", "LeakyReLU"}

Converted == pc # "start"

\* C7 as stated: conversion returns normally iff every layer is supported and
\* exactly one activation kind occurs; any model with an unsupported layer
\* raises NotImplementedError, and any model with two or more activation
\* kinds, or with none, fails the assertion.
C7_Original ==
    Converted =>
        /\ (built.conv.raised = "none") =
              (~HasUnsupported /\ Cardinality(ActivationKinds) = 1)
        /\ HasUnsupported => built.conv.raised = "NotImplementedError"
        /\ Cardinality(ActivationKinds) # 1 => built.conv.raised = "AssertionError"

\* C7: conversion returns normally iff every layer is supported and exactly
\* one activation kind occurs; a model with an unsupported layer raises
\* NotImplementedError, whatever its activations; a model whose layers are
\* all supported and that has two or more activation kinds, or none, fails
\* the assertion.
C7_OneActivationKind ==
    Converted =>
        /\ (built.conv.raised = "none") =
              (~HasUnsupported /\ Cardinality(ActivationKinds) = 1)
        /\ HasUnsupported => built.conv.raised = "NotImplementedError"
        /\ (~HasUnsupported /\ Cardinality(ActivationKinds) # 1) =>
              built.conv.raised = "AssertionError"

C7_Witness ==
    /\ Converted
    /\ HasUnsupported
    /\ Cardinality(ActivationKinds) = 2
    /\ built.conv.raised = "NotImplementedError"

\* the position in torchModel of the k-th layer that is not a Dropout
KeptPosition(k) ==
    CHOOSE i \in 1..Len(torchModel) :
        /\ torchModel[i] # "Dropout"
        /\ Cardinality({j \in 1..(i - 1) : torchModel[j] # "Dropout"}) = k - 1

\* the position in the converted model of the k-th Dense layer
DensePosition(k) ==
    CHOOSE i \in 1..Len(built.conv.ans) :
        /\ built.conv.ans[i].kind = "Dense"
        /\ Cardinality({j \in 1..(i - 1) : built.conv.ans[j].kind = "Dense"}) = k - 1

KindMatches(layer, klayer) ==
    \/ layer = "Flatten" /\ klayer.kind = "Flatten"
    \/ layer = "Linear" /\ klayer.kind = "Dense"
    \/ layer = "ReLU" /\ klayer.kind = "Activation" /\ klayer.fn = "relu"
    \/ layer = "Tanh" /\ klayer.kind = "Activation" /\ klayer.fn = "tanh"
    \/ layer = "LeakyReLU" /\ klayer.kind = "LeakyReLU"

NumLinear == Cardinality({i \in 1..Len(torchModel) : torchModel[i] = "Linear"})

\* C8: on success the converted layers are the input layers without the
\* Dropout layers, in order and kind by kind (each Dense and activation
\* coming from the layer at the matching position); and when the
\* RecurBaseModel is built, U is all Dense layers but the last, in order, W
\* is the last Dense layer, and len(U) + 1 is the number of Linear layers.
C8_LayersPreserved ==
    /\ (Converted /\ built.conv.raised = "none") =>
          /\ Len(built.conv.ans) =
                Cardinality({i \in 1..Len(torchModel) : torchModel[i] # "Dropout"})
          /\ \A k \in 1..Len(built.conv.ans) :
                /\ KindMatches(torchModel[KeptPosition(k)], built.conv.ans[k])
                /\ built.conv.ans[k].kind # "Flatten" =>
                      built.conv.ans[k].n = KeptPosition(k)
    /\ (Converted /\ built.raised = "none") =>
          /\ Len(built.U) + 1 = NumLinear
          /\ \A k \in 1..Len(built.U) : built.U[k] = built.conv.ans[DensePosition(k)]
          /\ built.W = <<built.conv.ans[DensePosition(NumLinear)]>>

C8_Witness ==
    /\ Converted
    /\ built.raised = "none"
    /\ "Dropout" \in Range(torchModel)
    /\ Len(built.U) = 1

====
